---------------------------- MODULE Spec2Model ----------------------------
(***************************************************************************)
(* A model of configService: the source resolver (getConfigurationFiles),  *)
(* the decoder dispatch (processFile), the field binder (processTags and   *)
(* processInitTags), the facade (load, init, Load, Init) and the reload    *)
(* watcher started by Load when AutoReload is set.                         *)
(*                                                                         *)
(* The caller's record is a Go value described by a type descriptor (what  *)
(* reflection sees): scalars, structs, pointers and slices.  Pointers and  *)
(* slices refer to cells of a heap, so that a shallow copy of a struct     *)
(* shares its pointees and backing arrays with the original, as in Go.     *)
(***************************************************************************)
EXTENDS Integers, Sequences, FiniteSets, TLC

VARIABLES
    schema,          \* the type of the caller's record (reflect.Type of *config)
    opts,            \* the service's Config (Environment, ENVPrefix, AutoReload, ...)
    files,           \* the files argument of Load / Init
    environ,         \* the process environment: name -> value
    fs,              \* the file system: path -> [mtime, content] of the regular files
    clock,           \* the file system's time, stamped on a written file
    config,          \* the caller's record (the value config points to)
    heap,            \* pointees and backing arrays
    configModTimes,  \* ConfigService.configModTimes
    err,             \* the variable err of Load, which the watcher's closure captures
    returned,        \* what the last Load / Init call returned to its caller
    pc,              \* "idle" before the call, then "done", or "hung" (never returns)
    op,              \* the last step: "none", "Load", "Init", "Tick" or "Write"
    original,        \* the caller's record as it was when Load / Init was called
    timer,           \* the watcher's timer: "none", "armed" or "stalled"
    callbacks,       \* the number of AutoReloadCallback invocations so far
    trace,           \* the files decoded by the last run of load/init, in order
    cycle,           \* the last watcher cycle: [ran, changed, err, seed], seed the
                     \* scratch record it started from
    watchers         \* the watcher goroutines, one per Load call with AutoReload:
                     \* [at, v, found], at the place in the loop, v the scratch
                     \* record, found the files the pass resolved

vars == <<schema, opts, files, environ, fs, clock, config, heap, configModTimes,
          err, returned, pc, op, original, timer, callbacks, trace, cycle,
          watchers>>

-----------------------------------------------------------------------------
(* Errors.                                                                 *)

NoErr == [kind |-> "none", what |-> ""]
RequiredErr(name) == [kind |-> "required", what |-> name]
ConvertErr(name) == [kind |-> "convert", what |-> name]
DecodeErr(path) == [kind |-> "decode", what |-> path]
UnmatchedErr(path) == [kind |-> "unmatched", what |-> path]
InvalidErr == [kind |-> "invalid", what |-> "should be struct"]
AddressErr == [kind |-> "address", what |-> "should be addressable"]

-----------------------------------------------------------------------------
(* Type descriptors and field descriptors (reflect.Type, StructField).     *)

BoolT == [kind |-> "bool"]
IntT == [kind |-> "int"]
StringT == [kind |-> "string"]
StructT(fields) == [kind |-> "struct", fields |-> fields]
PtrT(elem) == [kind |-> "ptr", elem |-> elem]
SliceT(elem) == [kind |-> "slice", elem |-> elem]

Tags(env, default, required) ==
    [env |-> env, default |-> default, required |-> required]
NoTags == Tags("", "", FALSE)
Field(name, type, tag) ==
    [name |-> name, type |-> type, tag |-> tag, anonymous |-> FALSE]
Embedded(name, type) ==
    [name |-> name, type |-> type, tag |-> NoTags, anonymous |-> TRUE]

IsScalar(T) == T.kind \in {"bool", "int", "string"}

(* reflect.Zero: a nil pointer is address 0, a nil slice is array 0.       *)
RECURSIVE Zero(_)
Zero(T) ==
    CASE T.kind = "bool" -> FALSE
      [] T.kind = "int" -> 0
      [] T.kind = "string" -> ""
      [] T.kind = "ptr" -> [addr |-> 0]
      [] T.kind = "slice" -> [arr |-> 0]
      [] T.kind = "struct" -> [i \in 1..Len(T.fields) |-> Zero(T.fields[i].type)]

(* reflect.DeepEqual(v, reflect.Zero(T)): a non-nil pointer or slice is    *)
(* never deeply equal to nil.                                              *)
RECURSIVE IsZero(_, _)
IsZero(T, v) ==
    CASE T.kind = "ptr" -> v.addr = 0
      [] T.kind = "slice" -> v.arr = 0
      [] T.kind = "struct" ->
            \A i \in 1..Len(T.fields) : IsZero(T.fields[i].type, v[i])
      [] OTHER -> v = Zero(T)

(* The smallest address no cell of h has.                                  *)
Fresh(h) ==
    CHOOSE a \in 1..(Cardinality(DOMAIN h) + 1) :
        a \notin DOMAIN h /\ \A b \in 1..(a - 1) : b \in DOMAIN h

(* The cells reachable from a value.                                       *)
RECURSIVE Cells(_, _, _)
Cells(T, v, h) ==
    CASE T.kind = "ptr" ->
            IF v.addr = 0 THEN {}
            ELSE {v.addr} \cup Cells(T.elem, h[v.addr], h)
      [] T.kind = "slice" ->
            IF v.arr = 0 THEN {}
            ELSE {v.arr} \cup
                 UNION {Cells(T.elem, h[v.arr][i], h) : i \in 1..Len(h[v.arr])}
      [] T.kind = "struct" ->
            UNION {Cells(T.fields[i].type, v[i], h) : i \in 1..Len(T.fields)}
      [] OTHER -> {}

(* What a reader of the record sees: the value with every pointer and      *)
(* slice followed.  A nil pointer or slice reads as <<>>.                  *)
RECURSIVE Deep(_, _, _)
Deep(T, v, h) ==
    CASE T.kind = "ptr" ->
            IF v.addr = 0 THEN <<>> ELSE <<Deep(T.elem, h[v.addr], h)>>
      [] T.kind = "slice" ->
            IF v.arr = 0 THEN <<>>
            ELSE [i \in 1..Len(h[v.arr]) |-> Deep(T.elem, h[v.arr][i], h)]
      [] T.kind = "struct" ->
            [i \in 1..Len(T.fields) |-> Deep(T.fields[i].type, v[i], h)]
      [] OTHER -> v

-----------------------------------------------------------------------------
(* Strings.  TLC cannot take a string apart, so the string functions the   *)
(* code calls are tabulated on the strings the model uses.                 *)

(* The number of appended elements after which the probing loop of the     *)
(* binder is reported as not terminating.                                  *)
MaxGrow == 4

(* strings.ToUpper of one segment of a variable name.                      *)
ToUpper(s) ==
    CASE s = "ConfigService" -> "CONFIGSERVICE"
      [] s = "Flag" -> "FLAG"
      [] s = "Port" -> "PORT"
      [] s = "Name" -> "NAME"
      [] s = "Value" -> "VALUE"
      [] s = "Second" -> "SECOND"
      [] s = "Sub" -> "SUB"
      [] s = "Base" -> "BASE"
      [] s = "Items" -> "ITEMS"
      [] s = "Host" -> "HOST"
      [] OTHER -> s

(* strings.ToLower of an environment value.                                *)
ToLower(s) ==
    CASE s = "F" -> "f"
      [] s = "False" -> "false"
      [] s = "FALSE" -> "false"
      [] s = "TRUE" -> "true"
      [] OTHER -> s

(* fmt.Sprint of a slice index.                                            *)
Sprint(i) ==
    CASE i = 0 -> "0" [] i = 1 -> "1" [] i = 2 -> "2" [] i = 3 -> "3"
      [] i = 4 -> "4" [] i = 5 -> "5" [] OTHER -> "n"

(* strings.Join(segs, "_").                                                *)
RECURSIVE Join(_)
Join(segs) ==
    IF Len(segs) = 0 THEN ""
    ELSE IF Len(segs) = 1 THEN segs[1]
    ELSE segs[1] \o "_" \o Join(Tail(segs))

(* strings.ToUpper(strings.Join(segs, "_")): "_" is its own upper case.    *)
JoinUpper(segs) == Join([i \in 1..Len(segs) |-> ToUpper(segs[i])])

(* yaml.Unmarshal of a plain scalar into a value of type T: the literals   *)
(* of YAML that the model's strings are, anything else a type error.       *)
yamlUnmarshal(T, s) ==
    CASE T.kind = "bool" ->
            IF ToLower(s) = "true" THEN [ok |-> TRUE, v |-> TRUE]
            ELSE IF ToLower(s) = "false" THEN [ok |-> TRUE, v |-> FALSE]
            ELSE [ok |-> FALSE, v |-> FALSE]
      [] T.kind = "int" ->
            CASE s = "0" -> [ok |-> TRUE, v |-> 0]
              [] s = "1" -> [ok |-> TRUE, v |-> 1]
              [] s = "80" -> [ok |-> TRUE, v |-> 80]
              [] s = "8080" -> [ok |-> TRUE, v |-> 8080]
              [] s = "9090" -> [ok |-> TRUE, v |-> 9090]
              [] OTHER -> [ok |-> FALSE, v |-> 0]
      [] T.kind = "string" -> [ok |-> TRUE, v |-> s]
      [] OTHER -> [ok |-> FALSE, v |-> Zero(T)]

-----------------------------------------------------------------------------
(* The field binder.                                                       *)

Res(v, h, e, hung) == [v |-> v, h |-> h, err |-> e, hung |-> hung]
Failed(r) == r.err.kind # "none" \/ r.hung

Getenv(name) == IF name \in DOMAIN environ THEN environ[name] ELSE ""

getPrefixForStruct(prefixes, f) ==
    IF f.anonymous THEN prefixes ELSE Append(prefixes, f.name)

(* The names probed for a field, in order.                                 *)
envNames(f, prefixes) ==
    IF f.tag.env = ""
    THEN <<Join(Append(prefixes, f.name)), JoinUpper(Append(prefixes, f.name))>>
    ELSE <<f.tag.env>>

(* The value of the first probed name that is set to a non-empty string,   *)
(* "" when there is none.                                                  *)
firstEnv(names) ==
    IF \E i \in 1..Len(names) : Getenv(names[i]) # ""
    THEN Getenv(names[CHOOSE i \in 1..Len(names) :
                    /\ Getenv(names[i]) # ""
                    /\ \A j \in 1..(i - 1) : Getenv(names[j]) = ""])
    ELSE ""

(* The conversion of an environment value into a field.                    *)
setFromEnv(T, value) ==
    CASE T.kind = "bool" ->
            [ok |-> TRUE, v |-> ToLower(value) \notin {"", "0", "f", "false"}]
      [] T.kind = "string" -> [ok |-> TRUE, v |-> value]
      [] OTHER -> yamlUnmarshal(T, value)

RECURSIVE bindStruct(_, _, _, _, _, _)
RECURSIVE bindValue(_, _, _, _, _, _)
RECURSIVE bindElems(_, _, _, _, _, _, _)
RECURSIVE grow(_, _, _, _, _, _, _)

(* The binder without the default step.                                    *)
afterEnvNoDefault(f, v, h, prefixes, enforce, s1) ==
    IF ~s1.ok THEN Res(v, h, ConvertErr(f.name), FALSE)
    ELSE IF ~IsZero(f.type, s1.v)
    THEN bindValue(f, f.type, s1.v, h, prefixes, enforce)
    ELSE IF f.tag.required /\ enforce /\ f.tag.default = ""
    THEN Res(s1.v, h, RequiredErr(f.name), FALSE)
    ELSE bindValue(f, f.type, s1.v, h, prefixes, enforce)

(* The binder without the required step.                                   *)
afterEnvNoRequired(f, v, h, prefixes, enforce, s1) ==
    IF ~s1.ok THEN Res(v, h, ConvertErr(f.name), FALSE)
    ELSE IF ~IsZero(f.type, s1.v)
    THEN bindValue(f, f.type, s1.v, h, prefixes, enforce)
    ELSE IF f.tag.default # "" /\ yamlUnmarshal(f.type, f.tag.default).ok
    THEN bindValue(f, f.type, yamlUnmarshal(f.type, f.tag.default).v,
                   h, prefixes, enforce)
    ELSE bindValue(f, f.type, s1.v, h, prefixes, enforce)

(* The field after the environment: the default when it is blank and has   *)
(* one, the error when it is blank, required and has none, then the        *)
(* nested records.  s1 is the conversion of the environment value.         *)
afterEnv(f, v, h, prefixes, enforce, s1) ==
    IF ~s1.ok THEN Res(v, h, ConvertErr(f.name), FALSE)
    ELSE IF ~IsZero(f.type, s1.v)
    THEN bindValue(f, f.type, s1.v, h, prefixes, enforce)
    ELSE IF f.tag.default # ""
    THEN IF yamlUnmarshal(f.type, f.tag.default).ok
         THEN bindValue(f, f.type, yamlUnmarshal(f.type, f.tag.default).v,
                        h, prefixes, enforce)
         ELSE Res(s1.v, h, ConvertErr(f.name), FALSE)
    ELSE IF f.tag.required /\ enforce
    THEN Res(s1.v, h, RequiredErr(f.name), FALSE)
    ELSE bindValue(f, f.type, s1.v, h, prefixes, enforce)

(* One iteration of the loop over the fields: the first probed name that   *)
(* is set is converted into the field.                                     *)
bindField(f, v, h, prefixes, enforce) ==
    afterEnv(f, v, h, prefixes, enforce,
             IF firstEnv(envNames(f, prefixes)) = ""
             THEN [ok |-> TRUE, v |-> v]
             ELSE setFromEnv(f.type, firstEnv(envNames(f, prefixes))))

(* The pointer keeps its address; the pointee was bound in place.          *)
throughPointer(v, r) == Res(v, [r.h EXCEPT ![v.addr] = r.v], r.err, r.hung)

(* The field with its pointers followed: a record is bound in place, a     *)
(* slice element by element; a nil pointer ends the walk.                  *)
bindValue(f, T, v, h, prefixes, enforce) ==
    CASE T.kind = "ptr" ->
            IF v.addr = 0 THEN Res(v, h, NoErr, FALSE)
            ELSE throughPointer(v, bindValue(f, T.elem, h[v.addr], h,
                                             prefixes, enforce))
      [] T.kind = "struct" ->
            bindStruct(T, v, h, getPrefixForStruct(prefixes, f), enforce, 1)
      [] T.kind = "slice" ->
            IF v.arr # 0 /\ Len(h[v.arr]) > 0
            THEN bindElems(f, T, v, h, prefixes, enforce, 0)
            ELSE IF T.elem.kind = "struct"
            THEN grow(f, T, v, h, prefixes, enforce, 0)
            ELSE Res(v, h, NoErr, FALSE)
      [] OTHER -> Res(v, h, NoErr, FALSE)

(* Element i was bound in the backing array: r is its result.              *)
nextElem(f, T, v, prefixes, enforce, i, r) ==
    IF Failed(r)
    THEN Res(v, [r.h EXCEPT ![v.arr][i + 1] = r.v], r.err, r.hung)
    ELSE bindElems(f, T, v, [r.h EXCEPT ![v.arr][i + 1] = r.v],
                   prefixes, enforce, i + 1)

(* The elements of a non-empty slice, bound in the backing array.          *)
bindElems(f, T, v, h, prefixes, enforce, i) ==
    IF i >= Len(h[v.arr]) \/ T.elem.kind # "struct" THEN Res(v, h, NoErr, FALSE)
    ELSE nextElem(f, T, v, prefixes, enforce, i,
                  bindStruct(T.elem, h[v.arr][i + 1], h,
                             Append(getPrefixForStruct(prefixes, f), Sprint(i)),
                             enforce, 1))

(* The fresh element of index idx was bound: r is its result.  An error    *)
(* ends the loop, an element equal to a zero element ends it, any other    *)
(* element is appended.  The first append of an empty slice allocates its  *)
(* backing array.                                                          *)
nextProbe(f, T, v, prefixes, enforce, idx, r) ==
    IF Failed(r) THEN Res(v, r.h, r.err, r.hung)
    ELSE IF IsZero(T.elem, r.v) THEN Res(v, r.h, NoErr, FALSE)
    ELSE IF idx = 0
    THEN grow(f, T, [arr |-> Fresh(r.h)], (Fresh(r.h) :> <<r.v>>) @@ r.h,
              prefixes, enforce, idx + 1)
    ELSE grow(f, T, v, [r.h EXCEPT ![v.arr] = Append(@, r.v)],
              prefixes, enforce, idx + 1)

(* The probing loop on an empty slice of records.  It has no bound of its  *)
(* own: after MaxGrow appended elements it is reported as not ending.      *)
grow(f, T, v, h, prefixes, enforce, idx) ==
    IF idx >= MaxGrow THEN Res(v, h, NoErr, TRUE)
    ELSE nextProbe(f, T, v, prefixes, enforce, idx,
                   bindStruct(T.elem, Zero(T.elem), h,
                              Append(getPrefixForStruct(prefixes, f), Sprint(idx)),
                              enforce, 1))

(* Field i was bound: r is its result.  An error ends the loop.            *)
nextField(T, v, prefixes, enforce, i, r) ==
    IF Failed(r) THEN Res([v EXCEPT ![i] = r.v], r.h, r.err, r.hung)
    ELSE bindStruct(T, [v EXCEPT ![i] = r.v], r.h, prefixes, enforce, i + 1)

(* The loop over the fields of a record, from field i on.                  *)
bindStruct(T, v, h, prefixes, enforce, i) ==
    IF i > Len(T.fields) THEN Res(v, h, NoErr, FALSE)
    ELSE nextField(T, v, prefixes, enforce, i,
                   bindField(T.fields[i], v[i], h, prefixes, enforce))

(* processTags raises on a required field that is blank.                   *)
processTags(T, v, h, prefixes) ==
    IF T.kind # "struct" THEN Res(v, h, InvalidErr, FALSE)
    ELSE bindStruct(T, v, h, prefixes, TRUE, 1)

(* processInitTags is processTags without the required branch.             *)
processInitTags(T, v, h, prefixes) ==
    IF T.kind # "struct" THEN Res(v, h, InvalidErr, FALSE)
    ELSE bindStruct(T, v, h, prefixes, FALSE, 1)

-----------------------------------------------------------------------------
(* The source resolver.  A requested file is [stem, ext]: path.Ext and     *)
(* strings.TrimSuffix have already split it.                               *)

FileName(stem, ext) == [stem |-> stem, ext |-> ext]
Path(file) == file.stem \o file.ext

GetEnvironment ==
    IF opts.Environment = ""
    THEN IF Getenv("CONFIGOR_ENV") # "" THEN Getenv("CONFIGOR_ENV")
         ELSE IF opts.testBinary THEN "test"
         ELSE "development"
    ELSE opts.Environment

getENVPrefix ==
    IF opts.ENVPrefix = ""
    THEN IF Getenv("CONFIGOR_ENV_PREFIX") # "" THEN Getenv("CONFIGOR_ENV_PREFIX")
         ELSE "ConfigService"
    ELSE opts.ENVPrefix

(* The prefixes the binder starts with: none when the prefix is "-".       *)
envPrefixes == IF getENVPrefix = "-" THEN <<>> ELSE <<getENVPrefix>>

(* The variant of a file for an environment, when it is a regular file.    *)
getConfigurationFileWithENVPrefix(file, env) ==
    LET envFile == IF file.ext = "" THEN file.stem \o "." \o env
                   ELSE file.stem \o "." \o env \o file.ext
    IN  IF envFile \in DOMAIN fs
        THEN [ok |-> TRUE, path |-> envFile, mtime |-> fs[envFile].mtime]
        ELSE [ok |-> FALSE, path |-> "", mtime |-> clock]

(* What one candidate contributes: the file itself, then its variant for   *)
(* the environment, and the example variant when neither was found.        *)
candidateFiles(file) ==
    LET own == IF Path(file) \in DOMAIN fs THEN <<Path(file)>> ELSE <<>>
        variant == getConfigurationFileWithENVPrefix(file, GetEnvironment)
        example == getConfigurationFileWithENVPrefix(file, "example")
        found == own \o (IF variant.ok THEN <<variant.path>> ELSE <<>>)
    IN  IF Len(found) > 0 THEN found
        ELSE IF example.ok THEN <<example.path>>
        ELSE <<>>

(* The loop over the candidates from the first to the last.                *)
RECURSIVE resultKeysForward(_, _)
resultKeysForward(fileList, i) ==
    IF i < 1 THEN <<>>
    ELSE resultKeysForward(fileList, i - 1) \o candidateFiles(fileList[i])

(* The loop from the last candidate to the first.                          *)
RECURSIVE resultKeys(_, _)
resultKeys(fileList, i) ==
    IF i < 1 THEN <<>>
    ELSE candidateFiles(fileList[i]) \o resultKeys(fileList, i - 1)

getConfigurationFiles(fileList) ==
    LET keys == resultKeys(fileList, Len(fileList))
    IN  [keys |-> keys,
         times |-> [p \in {keys[i] : i \in 1..Len(keys)} |-> fs[p].mtime]]

-----------------------------------------------------------------------------
(* The decoders.  The content of a file is [bad, unknown, doc]: bad when   *)
(* no format parses it, unknown when it holds a key no field matches, and  *)
(* doc what it gives: for a record the fields it names, for a slice the    *)
(* list of its elements.                                                   *)

Content(doc) == [bad |-> FALSE, unknown |-> FALSE, doc |-> doc]
BadContent == [bad |-> TRUE, unknown |-> FALSE, doc |-> <<>>]

RECURSIVE decodeValue(_, _, _, _)
RECURSIVE decodeStruct(_, _, _, _, _)
RECURSIVE decodeElems(_, _, _, _)

(* The pointee at address a was decoded: r is its result.                  *)
pointerTo(a, r) == [v |-> [addr |-> a], h |-> [r.h EXCEPT ![a] = r.v]]

(* The elements of the array at address a were decoded: r is the result.   *)
sliceOf(a, r) == [v |-> [arr |-> a], h |-> [r.h EXCEPT ![a] = r.v]]

(* Decoding sets the fields the document names and leaves the others; it   *)
(* decodes through a pointer that is set, allocates one that is nil, and   *)
(* makes a new backing array for a slice.                                  *)
decodeValue(T, v, h, doc) ==
    CASE T.kind = "struct" -> decodeStruct(T, v, h, doc, 1)
      [] T.kind = "ptr" ->
            IF v.addr = 0
            THEN pointerTo(Fresh(h),
                           decodeValue(T.elem, Zero(T.elem),
                                       (Fresh(h) :> Zero(T.elem)) @@ h, doc))
            ELSE pointerTo(v.addr, decodeValue(T.elem, h[v.addr], h, doc))
      [] T.kind = "slice" ->
            sliceOf(Fresh(h),
                    decodeElems(T.elem, (Fresh(h) :> <<>>) @@ h, doc, 1))
      [] OTHER -> [v |-> doc, h |-> h]

(* Field i was decoded: r is its result.                                   *)
nextDecoded(T, v, doc, i, r) ==
    decodeStruct(T, [v EXCEPT ![i] = r.v], r.h, doc, i + 1)

decodeStruct(T, v, h, doc, i) ==
    IF i > Len(T.fields) THEN [v |-> v, h |-> h]
    ELSE IF T.fields[i].name \in DOMAIN doc
    THEN nextDecoded(T, v, doc, i,
                     decodeValue(T.fields[i].type, v[i], h,
                                 doc[T.fields[i].name]))
    ELSE decodeStruct(T, v, h, doc, i + 1)

(* An element was decoded into a zero element (r), then the rest (rest).   *)
consElem(r, rest) == [v |-> <<r.v>> \o rest.v, h |-> rest.h]

restElems(T, docs, i, r) == consElem(r, decodeElems(T, r.h, docs, i + 1))

decodeElems(T, h, docs, i) ==
    IF i > Len(docs) THEN [v |-> <<>>, h |-> h]
    ELSE restElems(T, docs, i, decodeValue(T, Zero(T), h, docs[i]))

(* The file was decoded: r is the result.  In strict mode a key that       *)
(* matches no field is an error, reported after the decoding.              *)
decoded(path, unknown, r) ==
    IF unknown /\ opts.ErrorOnUnmatchedKeys
    THEN Res(r.v, r.h, UnmatchedErr(path), FALSE)
    ELSE Res(r.v, r.h, NoErr, FALSE)

(* processFile: a file no decoder parses leaves the record alone.          *)
processFile(T, v, h, path) ==
    IF fs[path].content.bad THEN Res(v, h, DecodeErr(path), FALSE)
    ELSE decoded(path, fs[path].content.unknown,
                 decodeValue(T, v, h, fs[path].content.doc))

-----------------------------------------------------------------------------
(* The facade.                                                             *)

RECURSIVE processFiles(_, _, _, _, _)

(* File i was decoded: r is its result.  An error ends the loop.           *)
nextFile(T, keys, i, r) ==
    IF r.err.kind # "none" THEN [v |-> r.v, h |-> r.h, err |-> r.err, n |-> i]
    ELSE processFiles(T, r.v, r.h, keys, i + 1)

(* The loop over the resolved files: n counts the files read.              *)
processFiles(T, v, h, keys, i) ==
    IF i > Len(keys) THEN [v |-> v, h |-> h, err |-> NoErr, n |-> Len(keys)]
    ELSE nextFile(T, keys, i, processFile(T, v, h, keys[i]))

(* A change check that always reports a change.                            *)
sourcesChangedAlways(times) == TRUE

(* The change check of watch mode.                                         *)
sourcesChanged(times) ==
    \/ Cardinality(DOMAIN times) # Cardinality(DOMAIN configModTimes)
    \/ \E f \in DOMAIN times :
          f \notin DOMAIN configModTimes \/ times[f] > configModTimes[f]

Outcome(v, h, e, changed, hung, times, read) ==
    [v |-> v, h |-> h, err |-> e, changed |-> changed, hung |-> hung,
     times |-> times, trace |-> read]

(* The binder's result b ends the pipeline.                                *)
bound(found, n, b) ==
    Outcome(b.v, b.h, b.err, TRUE, b.hung, found.times,
            SubSeq(found.keys, 1, n))

(* The files were decoded (d): an error returns before the timestamps are  *)
(* stored; else they are stored and the fields are bound.                  *)
afterDecode(T, enforce, found, prefixes, d) ==
    IF d.err.kind # "none"
    THEN Outcome(d.v, d.h, d.err, TRUE, FALSE, configModTimes,
                 SubSeq(found.keys, 1, d.n))
    ELSE bound(found, d.n,
               IF enforce THEN processTags(T, d.v, d.h, prefixes)
               ELSE processInitTags(T, d.v, d.h, prefixes))

(* The sources were resolved (found): in watch mode, sources that did not  *)
(* change end the pipeline.                                                *)
afterResolve(T, v, h, watchMode, enforce, found) ==
    IF watchMode /\ ~sourcesChanged(found.times)
    THEN Outcome(v, h, NoErr, FALSE, FALSE, configModTimes, <<>>)
    ELSE afterDecode(T, enforce, found, envPrefixes,
                     processFiles(T, v, h, found.keys, 1))

load(T, v, h, watchMode) ==
    afterResolve(T, v, h, watchMode, TRUE, getConfigurationFiles(files))

init(T, v, h, watchMode) ==
    afterResolve(T, v, h, watchMode, FALSE, getConfigurationFiles(files))

(* The heap without the cells nothing reaches from the record or from the  *)
(* scratch record of a watcher that is in a pass.                          *)
Collect(T, v, h) ==
    [a \in Cells(T, v, h) \cup
           UNION {Cells(T, watchers[w].v, h) :
                     w \in {x \in DOMAIN watchers : watchers[x].at # "armed"}}
        |-> h[a]]

-----------------------------------------------------------------------------
(* The operations.                                                         *)

(* The number of times a file is written after the start.                  *)
MaxWrites == 2

NoCycle == [ran |-> FALSE, changed |-> FALSE, err |-> NoErr, seed |-> <<>>]

inputs == <<schema, opts, files, environ>>

(* The call ran the pipeline on the caller's record: r is its outcome.     *)
(* A binding that never ends never returns.                                *)
ran(r) ==
    /\ config' = r.v
    /\ heap' = Collect(schema, r.v, r.h)
    /\ configModTimes' = r.times
    /\ trace' = r.trace
    /\ err' = r.err
    /\ returned' = r.err
    /\ pc' = IF r.hung THEN "hung" ELSE "done"

(* A record that is not addressable is rejected.                           *)
rejected ==
    /\ err' = AddressErr
    /\ returned' = AddressErr
    /\ pc' = "done"
    /\ UNCHANGED <<config, heap, configModTimes, trace>>

(* A watcher that waits for its timer.                                     *)
Waiting == [at |-> "armed", v |-> <<>>, found |-> [keys |-> <<>>, times |-> <<>>]]

(* With AutoReload the call starts a watcher, a goroutine with a timer of  *)
(* its own, armed.                                                         *)
watch(r) ==
    /\ timer' = IF opts.AutoReload /\ ~r.hung THEN "armed" ELSE timer
    /\ watchers' = IF opts.AutoReload /\ ~r.hung
                   THEN Append(watchers, Waiting) ELSE watchers

(* ConfigService.Load: the record is loaded in place and the watcher is    *)
(* started.                                                                *)
Load(addressable) ==
    /\ pc = "idle"
    /\ op' = "Load"
    /\ original' = Deep(schema, config, heap)
    /\ IF addressable
       THEN ran(load(schema, config, heap, FALSE))
            /\ watch(load(schema, config, heap, FALSE))
       ELSE rejected /\ UNCHANGED <<timer, watchers>>
    /\ UNCHANGED <<inputs, fs, clock, callbacks, cycle>>

(* ConfigService.Init: as Load, with the binder that does not enforce      *)
(* required fields, and no watcher.                                        *)
Init(addressable) ==
    /\ pc = "idle"
    /\ op' = "Init"
    /\ original' = Deep(schema, config, heap)
    /\ IF addressable
       THEN ran(init(schema, config, heap, FALSE))
       ELSE rejected
    /\ UNCHANGED <<inputs, fs, clock, timer, callbacks, cycle, watchers>>

(* The scratch record of a watcher cycle: reflectPtr.Elem().Set(            *)
(* defaultValue), where defaultValue is the reflect.Value of *config, so   *)
(* what is copied is the record as it is when the cycle starts.  The copy  *)
(* of a struct is shallow.                                                 *)
scratch == config

(* Whether a cycle's result is committed.                                  *)
commits(r) == r.err.kind = "none" /\ r.changed /\ ~r.hung

(* The cycle ran load on the scratch record: r is its outcome.  A changed  *)
(* load without error is copied into the caller's record and the callback  *)
(* runs; the timer is reset.                                               *)
cycled(r) ==
    /\ config' = IF commits(r) THEN r.v ELSE config
    /\ heap' = Collect(schema, IF commits(r) THEN r.v ELSE config, r.h)
    /\ callbacks' = IF commits(r) /\ opts.hasCallback
                    THEN callbacks + 1 ELSE callbacks
    /\ configModTimes' = r.times
    /\ trace' = r.trace
    /\ err' = r.err
    /\ cycle' = [ran |-> TRUE, changed |-> r.changed, err |-> r.err,
                 seed |-> Deep(schema, scratch, heap)]
    /\ timer' = IF r.hung THEN "stalled" ELSE "armed"

(* One iteration of the watcher's loop: the timer fires and load runs in   *)
(* watch mode on the scratch record.                                       *)
Tick ==
    /\ timer = "armed"
    /\ op' = "Tick"
    /\ cycled(load(schema, scratch, heap, TRUE))
    /\ UNCHANGED <<inputs, fs, clock, returned, pc, original, watchers>>

(* The watcher's loop step by step, for watcher w: the passes of several   *)
(* watchers, and the calls of Load, interleave between the steps.          *)

(* What a step of a pass leaves alone besides what it writes.              *)
passFrame == UNCHANGED <<inputs, fs, clock, returned, pc, original, timer, cycle>>

(* The pass ends and the timer is reset.                                   *)
rearmed(w) == [watchers EXCEPT ![w] = Waiting]

(* The timer fires: the scratch record is made, a shallow copy of the      *)
(* caller's record.                                                        *)
Fire(w) ==
    /\ watchers[w].at = "armed"
    /\ op' = "Pass"
    /\ watchers' = [watchers EXCEPT ![w].at = "resolve", ![w].v = scratch]
    /\ passFrame
    /\ UNCHANGED <<config, heap, configModTimes, err, callbacks, trace>>

(* load in watch mode resolves the files and compares their times with the *)
(* stored ones: unchanged, it returns and the timer is reset.              *)
resolved(w, found) ==
    watchers' = IF sourcesChanged(found.times)
                THEN [watchers EXCEPT ![w].at = "decode", ![w].found = found]
                ELSE rearmed(w)

Resolve(w) ==
    /\ watchers[w].at = "resolve"
    /\ op' = "Pass"
    /\ resolved(w, getConfigurationFiles(files))
    /\ err' = IF sourcesChanged(getConfigurationFiles(files).times)
              THEN err ELSE NoErr
    /\ passFrame
    /\ UNCHANGED <<config, heap, configModTimes, callbacks, trace>>

(* The files were decoded into the scratch record (d): an error ends the   *)
(* pass, else the times are stored.                                        *)
decodedPass(w, d) ==
    /\ watchers' = IF d.err.kind # "none" THEN rearmed(w)
                   ELSE [watchers EXCEPT ![w].at = "bind", ![w].v = d.v]
    /\ heap' = d.h
    /\ configModTimes' = IF d.err.kind # "none" THEN configModTimes
                         ELSE watchers[w].found.times
    /\ err' = IF d.err.kind # "none" THEN d.err ELSE err
    /\ trace' = SubSeq(watchers[w].found.keys, 1, d.n)

Decode(w) ==
    /\ watchers[w].at = "decode"
    /\ op' = "Pass"
    /\ decodedPass(w, processFiles(schema, watchers[w].v, heap,
                                   watchers[w].found.keys, 1))
    /\ passFrame
    /\ UNCHANGED <<config, callbacks>>

(* The fields of the scratch record were bound (b): an error ends the      *)
(* pass; a binding that never ends leaves the watcher in it.               *)
boundPass(w, b) ==
    /\ watchers' = IF b.hung THEN [watchers EXCEPT ![w].at = "stalled"]
                   ELSE IF b.err.kind # "none" THEN rearmed(w)
                   ELSE [watchers EXCEPT ![w].at = "commit", ![w].v = b.v]
    /\ heap' = b.h
    /\ err' = IF b.err.kind # "none" THEN b.err ELSE err

Bind(w) ==
    /\ watchers[w].at = "bind"
    /\ op' = "Pass"
    /\ boundPass(w, processTags(schema, watchers[w].v, heap, envPrefixes))
    /\ passFrame
    /\ UNCHANGED <<config, configModTimes, callbacks, trace>>

(* The scratch record is copied into the caller's record, the callback     *)
(* runs and the timer is reset.                                            *)
Commit(w) ==
    /\ watchers[w].at = "commit"
    /\ op' = "Pass"
    /\ config' = watchers[w].v
    /\ callbacks' = IF opts.hasCallback THEN callbacks + 1 ELSE callbacks
    /\ watchers' = rearmed(w)
    /\ heap' = Collect(schema, watchers[w].v, heap)
    /\ err' = NoErr
    /\ passFrame
    /\ UNCHANGED <<configModTimes, trace>>

(* The number of Load calls on the service.                                *)
MaxLoads == 2

(* The caller, back from a call, is about to call again.                   *)
Again ==
    /\ pc = "done"
    /\ Len(watchers) < MaxLoads
    /\ op' = "Again"
    /\ pc' = "idle"
    /\ UNCHANGED <<inputs, fs, clock, config, heap, configModTimes, err,
                   returned, original, timer, callbacks, trace, cycle, watchers>>

(* The world writes a file: new content, a newer modification time.        *)
WriteFile(path, content) ==
    /\ clock <= MaxWrites
    /\ path \in DOMAIN fs
    /\ op' = "Write"
    /\ clock' = clock + 1
    /\ fs' = [fs EXCEPT ![path] = [mtime |-> clock + 1, content |-> content]]
    /\ UNCHANGED <<inputs, config, heap, configModTimes, err, returned, pc,
                   original, timer, callbacks, trace, cycle, watchers>>

(* The state before the call, for given inputs.                            *)
Start(T, o, fileList, env, fsys) ==
    /\ schema = T
    /\ opts = o
    /\ files = fileList
    /\ environ = env
    /\ fs = fsys
    /\ clock = 1
    /\ config = Zero(T)
    /\ heap = <<>>
    /\ configModTimes = <<>>
    /\ err = NoErr
    /\ returned = NoErr
    /\ pc = "idle"
    /\ op = "none"
    /\ original = <<>>
    /\ timer = "none"
    /\ callbacks = 0
    /\ trace = <<>>
    /\ cycle = NoCycle
    /\ watchers = <<>>

Options(environment, prefix, reload, callback, strict) ==
    [Environment |-> environment, ENVPrefix |-> prefix, testBinary |-> FALSE,
     AutoReload |-> reload, hasCallback |-> callback,
     ErrorOnUnmatchedKeys |-> strict]

File(content) == [mtime |-> 1, content |-> content]

-----------------------------------------------------------------------------
(* The watcher's specification: a record with a required name and a        *)
(* database section behind a pointer, loaded from one file that the world  *)
(* rewrites while the watcher runs.                                        *)
(*                                                                         *)
(*   type Config struct {                                                  *)
(*       Name string `required:"true"`                                     *)
(*       DB   *struct{ Host string }                                       *)
(*   }                                                                     *)

WatchSchema ==
    StructT(<<Field("Name", StringT, Tags("", "", TRUE)),
              Field("DB", PtrT(StructT(<<Field("Host", StringT, NoTags)>>)),
                    NoTags)>>)

WatchDocs ==
    { [Name |-> "a", DB |-> [Host |-> "h1"]],
      [Name |-> "b"],
      [DB |-> [Host |-> "h2"]],
      [DB |-> [Host |-> "h1"]] }

(* A content with a key that matches no field of the record.               *)
UnknownContent ==
    [bad |-> FALSE, unknown |-> TRUE, doc |-> [DB |-> [Host |-> "h3"]]]

WatchContents ==
    {Content(d) : d \in WatchDocs} \cup {BadContent, UnknownContent}

WatchInit ==
    \E c \in WatchContents, reload \in BOOLEAN, callback \in BOOLEAN,
       strict \in BOOLEAN :
        Start(WatchSchema, Options("", "", reload, callback, strict),
              <<FileName("config", ".yml")>>, <<>>, ("config.yml" :> File(c)))

WatchNext ==
    \/ \E addressable \in BOOLEAN : Load(addressable)
    \/ Tick
    \/ \E p \in DOMAIN fs, c \in WatchContents : WriteFile(p, c)

SpecWatch == WatchInit /\ [][WatchNext]_vars

-----------------------------------------------------------------------------
(* The specification of the passes: the record of the watcher's            *)
(* specification, a service with AutoReload, up to MaxLoads calls of Load  *)
(* on it, each starting a watcher, the watchers' passes taken step by      *)
(* step, and a world that rewrites the file.                               *)

PassContents == {Content([Name |-> "a", DB |-> [Host |-> "h1"]]),
                 Content([Name |-> "b"]),
                 BadContent}

PassesInit ==
    \E c \in PassContents, callback \in BOOLEAN :
        Start(WatchSchema, Options("", "", TRUE, callback, FALSE),
              <<FileName("config", ".yml")>>, <<>>, ("config.yml" :> File(c)))

PassesNext ==
    \/ \E addressable \in BOOLEAN : Load(addressable)
    \/ Again
    \/ \E w \in DOMAIN watchers : Fire(w)
    \/ \E w \in DOMAIN watchers : Resolve(w)
    \/ \E w \in DOMAIN watchers : Decode(w)
    \/ \E w \in DOMAIN watchers : Bind(w)
    \/ \E w \in DOMAIN watchers : Commit(w)
    \/ \E p \in DOMAIN fs, c \in PassContents : WriteFile(p, c)

SpecPasses == PassesInit /\ [][PassesNext]_vars

-----------------------------------------------------------------------------
(* The binder's specification: one call of Load or Init on a record with   *)
(* one annotated field, Value, at one of five places, followed by a        *)
(* second field; one file; an environment that sets the variables of       *)
(* Value.                                                                  *)
(*                                                                         *)
(*   type Inner struct { Value K `env:".." default:".." required:".."` }   *)
(*   type Config struct {                                                  *)
(*       Value K | Sub Inner | Base (embedded) | DB *Inner | Items []Inner *)
(*       Second string `required:".."`                                     *)
(*   }                                                                     *)

(* The indices of a slice for which the environment may set a variable.    *)
MaxEnvIdx == 2

Kinds == {"bool", "int", "string"}
Positions == {"top", "nested", "embedded", "ptr", "slice"}

KindT(kind) ==
    CASE kind = "bool" -> BoolT [] kind = "int" -> IntT [] kind = "string" -> StringT

BindSchema(pos, kind, tag, second) ==
    LET inner == StructT(<<Field("Value", KindT(kind), tag)>>)
        first == CASE pos = "top" -> Field("Value", KindT(kind), tag)
                   [] pos = "nested" -> Field("Sub", inner, NoTags)
                   [] pos = "embedded" -> Embedded("Base", inner)
                   [] pos = "ptr" -> Field("DB", PtrT(inner), NoTags)
                   [] pos = "slice" -> Field("Items", SliceT(inner), NoTags)
    IN  StructT(<<first, Field("Second", StringT, second)>>)

(* The default annotations: none, a value, and for bool and int a zero.    *)
Defaults(kind) ==
    CASE kind = "bool" -> {"", "true", "false"}
      [] kind = "int" -> {"", "8080", "0"}
      [] kind = "string" -> {"", "dflt"}

(* What the file says of Value: nothing, or a value.                       *)
InnerDocs(kind) ==
    {<<>>} \cup
    {[Value |-> x] :
        x \in CASE kind = "bool" -> {TRUE, FALSE}
                [] kind = "int" -> {80, 0}
                [] kind = "string" -> {"file"}}

Docs(pos, kind) ==
    CASE pos = "top" -> InnerDocs(kind)
      [] pos = "nested" -> {<<>>} \cup {[Sub |-> d] : d \in InnerDocs(kind) \ {<<>>}}
      [] pos = "embedded" -> {<<>>} \cup {[Base |-> d] : d \in InnerDocs(kind) \ {<<>>}}
      [] pos = "ptr" -> {<<>>} \cup {[DB |-> d] : d \in InnerDocs(kind)}
      [] pos = "slice" ->
            {<<>>} \cup {[Items |-> <<d>>] : d \in InnerDocs(kind)}
                   \cup {[Items |-> <<d, <<>>>>] : d \in InnerDocs(kind) \ {<<>>}}

(* The values the environment gives a variable of Value ("" is a variable  *)
(* set to the empty string).                                               *)
EnvVals(kind) ==
    CASE kind = "bool" -> {"", "0", "false", "F", "true", "yes"}
      [] kind = "int" -> {"", "0", "9090", "x"}
      [] kind = "string" -> {"", "a"}

SliceVals(kind) ==
    CASE kind = "bool" -> {"", "true", "false"}
      [] kind = "int" -> {"", "9090", "0"}
      [] kind = "string" -> {"", "a", "b"}

(* The binding path of Value at a position (idx for a slice element).      *)
ValuePath(pos, idx) ==
    <<"ConfigService">> \o
    (CASE pos = "nested" -> <<"Sub">>
       [] pos = "ptr" -> <<"DB">>
       [] pos = "slice" -> <<"Items", Sprint(idx)>>
       [] OTHER -> <<>>) \o <<"Value">>

(* The environments: for a field outside a slice, one or both of its two   *)
(* derived names, or the name of its env annotation; for the elements of   *)
(* a slice, the upper-case name of each index.                             *)
Envs(pos, kind, envTag) ==
    LET verbatim == Join(ValuePath(pos, 0))
        upper == JoinUpper(ValuePath(pos, 0))
        other == CHOOSE x \in EnvVals(kind) : x \notin {"", "0", "false", "F", "x"}
        indexed(g) == [n \in {JoinUpper(ValuePath(pos, i)) : i \in DOMAIN g} |->
                          g[CHOOSE i \in DOMAIN g : JoinUpper(ValuePath(pos, i)) = n]]
    IN  IF envTag # ""
        THEN {<<>>, (upper :> other)} \cup {(envTag :> x) : x \in EnvVals(kind)}
        ELSE IF pos = "slice"
        THEN {indexed(g) : g \in [0..(MaxEnvIdx - 1) -> SliceVals(kind)]}
        ELSE {<<>>} \cup {(verbatim :> x) : x \in EnvVals(kind)}
                    \cup {(upper :> x) : x \in EnvVals(kind)}
                    \cup {(verbatim :> x) @@ (upper :> other) : x \in EnvVals(kind)}

BindInit ==
    \E pos \in Positions, kind \in Kinds, envTag \in {"", "CUSTOM"},
       required \in BOOLEAN, second \in {NoTags, Tags("", "", TRUE)} :
    \E default \in Defaults(kind), doc \in Docs(pos, kind),
       env \in Envs(pos, kind, envTag) :
        Start(BindSchema(pos, kind, Tags(envTag, default, required), second),
              Options("", "", FALSE, FALSE, FALSE),
              <<FileName("config", ".yml")>>, env,
              ("config.yml" :> File(Content(doc))))

BindNext ==
    \/ \E addressable \in BOOLEAN : Load(addressable)
    \/ \E addressable \in BOOLEAN : Init(addressable)

SpecBind == BindInit /\ [][BindNext]_vars

-----------------------------------------------------------------------------
(* The resolver's specification: one call of Load or Init on a record of   *)
(* two strings, for one or two requested files (one with an extension, one *)
(* without), any set of their variants on disk, and the environment        *)
(* "development" or "production".                                          *)

FilesSchema == StructT(<<Field("X", StringT, NoTags), Field("Y", StringT, NoTags)>>)

FileA == FileName("a", ".yml")
FileB == FileName("b", "")

FileLists == {<<FileA>>, <<FileA, FileB>>, <<FileB, FileA>>}

DiskPaths == {"a.yml", "a.development.yml", "a.production.yml", "a.example.yml",
              "b", "b.development", "b.example"}

(* Each file gives its own name to the fields it sets: a requested file    *)
(* sets both fields, an example only Y, another variant only X.            *)
DocOf(path) ==
    IF path \in {"a.yml", "b"} THEN [X |-> path, Y |-> path]
    ELSE IF path \in {"a.example.yml", "b.example"} THEN [Y |-> path]
    ELSE [X |-> path]

FilesInit ==
    \E fileList \in FileLists, disk \in SUBSET DiskPaths,
       environment \in {"", "production"} :
        Start(FilesSchema, Options(environment, "", FALSE, FALSE, FALSE),
              fileList, <<>>, [p \in disk |-> File(Content(DocOf(p)))])

FilesNext ==
    \/ \E addressable \in BOOLEAN : Load(addressable)
    \/ \E addressable \in BOOLEAN : Init(addressable)

SpecFiles == FilesInit /\ [][FilesNext]_vars

-----------------------------------------------------------------------------
(* What the claims speak of.                                               *)

(* The caller-visible record, with everything reachable from it.           *)
Record == Deep(schema, config, heap)

(* Whether a record read as dv has every value that a document gives.      *)
RECURSIVE Gives(_, _, _)
Gives(T, dv, doc) ==
    CASE T.kind = "struct" ->
            \A i \in 1..Len(T.fields) :
                T.fields[i].name \in DOMAIN doc =>
                    Gives(T.fields[i].type, dv[i], doc[T.fields[i].name])
      [] T.kind = "ptr" -> dv # <<>> /\ Gives(T.elem, dv[1], doc)
      [] T.kind = "slice" ->
            /\ Len(dv) = Len(doc)
            /\ \A i \in 1..Len(doc) : Gives(T.elem, dv[i], doc[i])
      [] OTHER -> dv = doc

(* The one file of the binder's and the watcher's specifications.          *)
TheFile == fs["config.yml"].content

(* The fields of the record that hold a value (bool, int, string), at any  *)
(* depth, in the order of the walk.  A leaf is the field, the names its    *)
(* value is looked up under, whether the record it lies in is there (it is *)
(* not behind a nil pointer), its value, whether the file names it, and    *)
(* what the file gives it.                                                 *)
Leaf(f, names, there, value, named, given) ==
    [field |-> f, names |-> names, there |-> there, value |-> value,
     named |-> named, given |-> given]

RECURSIVE leavesOf(_, _, _, _, _, _, _)
RECURSIVE fieldLeaves(_, _, _, _, _, _, _)
RECURSIVE elemLeaves(_, _, _, _, _, _, _)

leavesOf(f, T, there, v, prefixes, named, doc) ==
    CASE T.kind = "ptr" ->
            IF there /\ v.addr # 0
            THEN leavesOf(f, T.elem, TRUE, heap[v.addr], prefixes, named, doc)
            ELSE leavesOf(f, T.elem, FALSE, Zero(T.elem), prefixes, named, doc)
      [] T.kind = "struct" ->
            fieldLeaves(T, there, v, getPrefixForStruct(prefixes, f),
                        named, doc, 1)
      [] T.kind = "slice" ->
            IF there /\ v.arr # 0
            THEN elemLeaves(f, T.elem, heap[v.arr],
                            getPrefixForStruct(prefixes, f), named, doc, 0)
            ELSE <<>>
      [] OTHER ->
            <<Leaf(f, envNames(f, prefixes), there, v, named,
                   IF named THEN <<doc>> ELSE <<>>)>>

fieldLeaves(T, there, v, prefixes, named, doc, i) ==
    IF i > Len(T.fields) THEN <<>>
    ELSE leavesOf(T.fields[i], T.fields[i].type, there, v[i], prefixes,
                  named /\ T.fields[i].name \in DOMAIN doc,
                  IF named /\ T.fields[i].name \in DOMAIN doc
                  THEN doc[T.fields[i].name] ELSE <<>>)
         \o fieldLeaves(T, there, v, prefixes, named, doc, i + 1)

elemLeaves(f, T, elems, prefixes, named, docs, idx) ==
    IF idx >= Len(elems) \/ T.kind # "struct" THEN <<>>
    ELSE fieldLeaves(T, TRUE, elems[idx + 1], Append(prefixes, Sprint(idx)),
                     named /\ idx < Len(docs),
                     IF named /\ idx < Len(docs) THEN docs[idx + 1] ELSE <<>>,
                     1)
         \o elemLeaves(f, T, elems, prefixes, named, docs, idx + 1)

(* The leaves of the caller's record.                                      *)
Leaves == fieldLeaves(schema, TRUE, config, envPrefixes, TRUE, TheFile.doc, 1)

(* The value of the environment for a leaf: that of the first of its names *)
(* set to a non-empty string, "" when there is none.                       *)
EnvOf(l) == firstEnv(l.names)

(* A call of Load or Init on an addressable record has returned.           *)
Returned(which) == op = which /\ pc = "done" /\ returned # AddressErr
Succeeded(which) == op = which /\ pc = "done" /\ returned = NoErr

-----------------------------------------------------------------------------
(* C1: after a Load that returns no error, every field with a candidate    *)
(* environment variable set to a non-empty value holds the value converted *)
(* from that variable, whatever the file gives the field and whatever its  *)
(* default annotation says.                                                *)
C1_EnvBeatsFileAndDefault ==
    Succeeded("Load") =>
        \A k \in DOMAIN Leaves :
            (Leaves[k].there /\ EnvOf(Leaves[k]) # "") =>
                Leaves[k].value =
                    setFromEnv(Leaves[k].field.type, EnvOf(Leaves[k])).v

(* C8: after a binding that returns no error, a boolean field with one of  *)
(* its environment variables set is false when the variable's value is     *)
(* "0", "false", "F" (in any letter case) or the empty string, and true    *)
(* for any other value, whatever the file or the default annotation gives. *)
C8_BoolFromEnv ==
    (Succeeded("Load") \/ Succeeded("Init")) =>
        \A k \in DOMAIN Leaves :
            (/\ Leaves[k].there
             /\ Leaves[k].field.type.kind = "bool"
             /\ \E i \in DOMAIN Leaves[k].names :
                    Leaves[k].names[i] \in DOMAIN environ) =>
                Leaves[k].value =
                    (ToLower(EnvOf(Leaves[k])) \notin {"", "0", "f", "false"})

-----------------------------------------------------------------------------
(* What the file and the environment leave a field at: the value the file  *)
(* gives it, replaced by the converted value of the environment when one   *)
(* of its variables is set.                                                *)
ParsedDefault(l) == yamlUnmarshal(l.field.type, l.field.tag.default).v

FromFile(l) == IF l.named THEN l.given[1] ELSE Zero(l.field.type)

BlankAfterEnv(l) ==
    IF EnvOf(l) = "" THEN IsZero(l.field.type, FromFile(l))
    ELSE /\ setFromEnv(l.field.type, EnvOf(l)).ok
         /\ IsZero(l.field.type, setFromEnv(l.field.type, EnvOf(l)).v)

(* No file, no environment variable and no default gives the field a       *)
(* non-zero value.                                                         *)
Unset(l) ==
    /\ BlankAfterEnv(l)
    /\ \/ l.field.tag.default = ""
       \/ IsZero(l.field.type, ParsedDefault(l))

(* The names of the fields of a type, at any depth, that are annotated     *)
(* required and carry no default annotation.                               *)
RECURSIVE RequiredFields(_)
RequiredFields(T) ==
    CASE T.kind = "struct" ->
            UNION {RequiredFields(T.fields[i].type) : i \in DOMAIN T.fields}
            \cup {T.fields[i].name : i \in
                    {j \in DOMAIN T.fields :
                        /\ IsScalar(T.fields[j].type)
                        /\ T.fields[j].tag.required
                        /\ T.fields[j].tag.default = ""}}
      [] T.kind \in {"ptr", "slice"} -> RequiredFields(T.elem)
      [] OTHER -> {}

(* C2 as stated: when a field annotated required, at any depth of the      *)
(* record type (behind a pointer included), gets a non-zero value from no  *)
(* file, no environment variable and no default, Load returns a            *)
(* required-field error (or fails earlier, converting an environment       *)
(* variable); Init returns no required-field error and leaves the field at *)
(* its zero value.                                                         *)
C2_RequiredAtAnyDepth ==
    \A k \in DOMAIN Leaves :
        (Leaves[k].field.tag.required /\ Unset(Leaves[k])) =>
            /\ (Returned("Load") /\ returned.kind # "convert") =>
                  returned.kind = "required"
            /\ Returned("Init") =>
                  /\ returned.kind # "required"
                  /\ Leaves[k].there =>
                        IsZero(Leaves[k].field.type, Leaves[k].value)

(* A required field the binder reaches and must reject: it lies in a       *)
(* record that is there, has no default annotation, and is left at zero by *)
(* the file and the environment.                                           *)
Missing(l) ==
    /\ l.field.tag.required
    /\ l.field.tag.default = ""
    /\ l.there
    /\ BlankAfterEnv(l)

(* C2, amended: when a field annotated required that carries no default    *)
(* annotation and lies in a record that is there (one not behind a pointer *)
(* that is nil after decoding) is left at zero by the file and the         *)
(* environment, Load returns a required-field error naming a required      *)
(* field without default (or fails earlier, converting an environment      *)
(* variable); Init returns no required-field error and leaves the field at *)
(* zero.                                                                   *)
C2_RequiredWhereReached ==
    \A k \in DOMAIN Leaves :
        Missing(Leaves[k]) =>
            /\ (Returned("Load") /\ returned.kind # "convert") =>
                  /\ returned.kind = "required"
                  /\ returned.what \in RequiredFields(schema)
            /\ Returned("Init") =>
                  /\ returned.kind # "required"
                  /\ IsZero(Leaves[k].field.type, Leaves[k].value)

(* Load rejects a required field of a record behind a pointer that the     *)
(* file allocated.                                                         *)
C2_Witness ==
    /\ Returned("Load")
    /\ returned = RequiredErr("Value")
    /\ schema.fields[1].type.kind = "ptr"
    /\ \E k \in DOMAIN Leaves :
          Missing(Leaves[k]) /\ Leaves[k].field.name = "Value"

-----------------------------------------------------------------------------
(* A field that no file names and no environment variable sets.            *)
Untouched(l) == ~l.named /\ \A i \in DOMAIN l.names : Getenv(l.names[i]) = ""

(* C3 as stated: after a Load or Init that returns no error, every field   *)
(* of the record type that carries a default annotation and got no value   *)
(* from the file or the environment holds the parsed default, at any       *)
(* depth, behind a pointer included.                                       *)
C3_DefaultAtAnyDepth ==
    (Succeeded("Load") \/ Succeeded("Init")) =>
        \A k \in DOMAIN Leaves :
            (Leaves[k].field.tag.default # "" /\ Untouched(Leaves[k])) =>
                /\ Leaves[k].there
                /\ Leaves[k].value = ParsedDefault(Leaves[k])

(* C3, amended: after a Load or Init that returns no error, every field    *)
(* that carries a default annotation, got no value from the file or the    *)
(* environment, and lies in a record that is there (one not behind a       *)
(* pointer that is nil after decoding) holds the parsed default.           *)
C3_DefaultWhereReached ==
    (Succeeded("Load") \/ Succeeded("Init")) =>
        \A k \in DOMAIN Leaves :
            (/\ Leaves[k].field.tag.default # ""
             /\ Untouched(Leaves[k])
             /\ Leaves[k].there) =>
                Leaves[k].value = ParsedDefault(Leaves[k])

(* A field behind a pointer the file allocated holds its non-zero default. *)
C3_Witness ==
    /\ Succeeded("Load")
    /\ schema.fields[1].type.kind = "ptr"
    /\ \E k \in DOMAIN Leaves :
          /\ Leaves[k].field.tag.default # ""
          /\ Untouched(Leaves[k])
          /\ Leaves[k].there
          /\ Leaves[k].value = ParsedDefault(Leaves[k])
          /\ ~IsZero(Leaves[k].field.type, Leaves[k].value)

-----------------------------------------------------------------------------
(* The fields of the record that are sequences of records the file gives   *)
(* no element.                                                             *)
EmptySlices ==
    {i \in DOMAIN schema.fields :
        /\ schema.fields[i].type.kind = "slice"
        /\ schema.fields[i].type.elem.kind = "struct"
        /\ \/ schema.fields[i].name \notin DOMAIN TheFile.doc
           \/ TheFile.doc[schema.fields[i].name] = <<>>}

(* The fields of the element of index idx of the sequence field i, as      *)
(* leaves of a zero element.                                               *)
ElemFields(i, idx) ==
    fieldLeaves(schema.fields[i].type.elem, FALSE,
                Zero(schema.fields[i].type.elem),
                Append(getPrefixForStruct(envPrefixes, schema.fields[i]),
                       Sprint(idx)),
                FALSE, <<>>, 1)

(* The index has an environment variable set for one of its fields.        *)
IndexSet(i, idx) ==
    \E k \in DOMAIN ElemFields(i, idx) : EnvOf(ElemFields(i, idx)[k]) # ""

(* The first index that has none.                                          *)
FirstUnset(i) ==
    CHOOSE n \in 0..MaxGrow :
        /\ \A idx \in 0..(n - 1) : IndexSet(i, idx)
        /\ n = MaxGrow \/ ~IndexSet(i, n)

Elements(i) == IF config[i].arr = 0 THEN <<>> ELSE heap[config[i].arr]

(* C7: for a field that is an empty sequence of records, the binding ends  *)
(* (the call returns), and the sequence then has one element for each of   *)
(* the consecutive indices 0, 1, 2, ... that have an environment variable  *)
(* set for one of the element's fields, up to the first index that has     *)
(* none, each element holding the converted values of its index's          *)
(* variables; whatever the annotations of the element's fields.            *)
C7_GrowthFromEnv ==
    \A i \in EmptySlices :
        (op \in {"Load", "Init"} /\ returned # AddressErr) =>
            /\ pc = "done"
            /\ returned.kind # "convert" =>
                  /\ Len(Elements(i)) = FirstUnset(i)
                  /\ \A idx \in 0..(Len(Elements(i)) - 1) :
                        \A k \in DOMAIN ElemFields(i, idx) :
                            EnvOf(ElemFields(i, idx)[k]) # "" =>
                                Elements(i)[idx + 1][k] =
                                    setFromEnv(ElemFields(i, idx)[k].field.type,
                                               EnvOf(ElemFields(i, idx)[k])).v

-----------------------------------------------------------------------------
(* The variant of a requested file for a suffix.                           *)
Suffixed(file, suffix) == file.stem \o "." \o suffix \o file.ext

OnDisk(path) == path \in DOMAIN fs

(* The files a candidate stands for: the literal file and the variant of   *)
(* the environment, those that exist, and the example when neither does.   *)
Literal(c) == Path(files[c])
Variant(c) == Suffixed(files[c], GetEnvironment)
Example(c) == Suffixed(files[c], "example")

StandsFor(c) ==
    {p \in {Literal(c), Variant(c)} : OnDisk(p)}
    \cup IF ~OnDisk(Literal(c)) /\ ~OnDisk(Variant(c)) /\ OnDisk(Example(c))
         THEN {Example(c)} ELSE {}

(* The candidate a decoded file stands for.                                *)
CandidateOf(path) == CHOOSE c \in DOMAIN files : path \in StandsFor(c)

(* The last decoded file that names a field, 0 when none does.             *)
LastNaming(name) ==
    IF \E i \in DOMAIN trace : name \in DOMAIN fs[trace[i]].content.doc
    THEN CHOOSE i \in DOMAIN trace :
            /\ name \in DOMAIN fs[trace[i]].content.doc
            /\ \A j \in (i + 1)..Len(trace) :
                  name \notin DOMAIN fs[trace[j]].content.doc
    ELSE 0

(* C4: the decoded files are those the candidates stand for, each once,    *)
(* the files of a later-listed candidate before those of an earlier-listed *)
(* one and, within a candidate, the literal file before the variant of the *)
(* environment, the example standing in only when neither exists; and each *)
(* field holds the value of the last decoded file that names it.           *)
C4_DecodeOrder ==
    (Succeeded("Load") \/ Succeeded("Init")) =>
        /\ {trace[i] : i \in DOMAIN trace} = UNION {StandsFor(c) : c \in DOMAIN files}
        /\ \A i, j \in DOMAIN trace :
              i < j =>
                  /\ trace[i] # trace[j]
                  /\ CandidateOf(trace[i]) >= CandidateOf(trace[j])
                  /\ CandidateOf(trace[i]) = CandidateOf(trace[j]) =>
                        /\ trace[i] = Literal(CandidateOf(trace[i]))
                        /\ trace[j] = Variant(CandidateOf(trace[i]))
        /\ \A k \in DOMAIN schema.fields :
              Record[k] = IF LastNaming(schema.fields[k].name) = 0 THEN ""
                          ELSE fs[trace[LastNaming(schema.fields[k].name)]]
                                  .content.doc[schema.fields[k].name]

(* Two candidates, each with its literal file and its variant: the variant *)
(* of the first-listed candidate is decoded last and gives X, the literal  *)
(* file of the first-listed candidate gives Y.                             *)
C4_Witness ==
    /\ Succeeded("Load")
    /\ Len(files) = 2
    /\ trace = <<Literal(2), Variant(2), Literal(1), Variant(1)>>
    /\ Record = <<Variant(1), Literal(1)>>

-----------------------------------------------------------------------------
(* C5: a watcher cycle that runs while every file still has the            *)
(* modification time of the previous load (no file was written since the   *)
(* last Load or cycle) leaves the caller-visible record as it was and does *)
(* not invoke the callback; a cycle that follows the writing of a file and *)
(* decodes and binds without error leaves the record holding every value   *)
(* the new content gives and invokes the callback exactly once.            *)
C5_ReloadOnChangeOnly ==
    [][op' = "Tick" =>
        /\ op \in {"Load", "Tick"} =>
              /\ Record' = Record
              /\ callbacks' = callbacks
        /\ (op = "Write" /\ cycle'.err = NoErr) =>
              /\ cycle'.changed
              /\ Gives(schema, Record', TheFile.doc)
              /\ callbacks' = callbacks + (IF opts.hasCallback THEN 1 ELSE 0)]_vars

(* A cycle after a write has committed the new content and called back,    *)
(* and the cycle after it found nothing changed.                           *)
C5_Witness ==
    /\ op = "Tick" /\ cycle.ran /\ ~cycle.changed
    /\ callbacks = 1
    /\ clock > 1
    /\ Gives(schema, Record, TheFile.doc)

(* C6: a watcher cycle in which decoding or binding returns an error       *)
(* leaves the caller-visible record, with everything reachable from it,    *)
(* exactly as it was, does not invoke the callback, returns nothing to a   *)
(* caller, and re-arms the timer.                                          *)
C6_FailedCycleLeavesRecord ==
    [][(op' = "Tick" /\ cycle'.err # NoErr) =>
        /\ Record' = Record
        /\ callbacks' = callbacks
        /\ returned' = returned
        /\ timer' = "armed"]_vars

(* C9: the scratch record of every watcher cycle is the caller's record as *)
(* it was when Load was called; so after a committed cycle a field that    *)
(* no file names any more reads as it did when Load was called.            *)
C9_ScratchIsOriginal ==
    cycle.ran =>
        /\ cycle.seed = original
        /\ (op = "Tick" /\ cycle.changed /\ cycle.err = NoErr
              /\ "Name" \notin DOMAIN TheFile.doc) => Record[1] = original[1]

(* C10: the stored timestamps are replaced only by a load whose decoding   *)
(* and binding both succeeded; so the cycle that follows a failed cycle,   *)
(* with no file written in between, is detected as changed again.          *)
C10_TimestampsOfSuccessOnly ==
    [][/\ configModTimes' # configModTimes => err' = NoErr
       /\ (op = "Tick" /\ cycle.err # NoErr /\ op' = "Tick") => cycle'.changed]_vars


-----------------------------------------------------------------------------
(* The watchers that are in a pass: between the firing of the timer and    *)
(* its reset.                                                              *)
InPass == {w \in DOMAIN watchers : watchers[w].at # "armed"}

(* C11: on a service with AutoReload, whatever the calls of Load, at most  *)
(* one reload pass (resolve, change check, decode, bind, commit, callback) *)
(* is in progress at any moment, so that no two passes use the stored      *)
(* times or the caller's record at the same time.                          *)
C11_OnePassAtATime == Cardinality(InPass) <= 1

=============================================================================
